---- MODULE Spec2Model ----
(***************************************************************************)
(* The colour picker hook of the canvas (useColorUnderCursor.ts): the two  *)
(* handlers it returns, the Konva handles it captures, the pixel read it   *)
(* issues and the two colour slots of the canvas store it dispatches to.   *)
(***************************************************************************)
EXTENDS Integers, Sequences, FiniteSets, TLC

(* ------------------------------ bounds --------------------------------- *)

\* Handler invocations (pointer-move and commit events) explored per run.
MaxEvents == 4

\* Logical width and height of the stage the canvas is given; the layer's
\* backing buffer has StageW * pixelRatio by StageH * pixelRatio pixels.
StageW == 32
StageH == 32

(* --------------------------- value domains ----------------------------- *)

\* A handle that is not there (getCanvasStage / getCanvasBaseLayer return
\* undefined before the canvas is mounted).
Absent == "absent"

\* Handles the provider can hold: a stage is mounted or removed, a layer is
\* mounted, removed or replaced by another.
Stages == {"S1"}
Layers == {"L1", "L2"}

\* stage.getPointerPosition() returns null when the pointer never entered.
NoPosition == [none |-> TRUE]

\* Logical pointer positions: one off the left edge, one inside.
Positions == { [x |-> -1, y |-> 5], [x |-> 10, y |-> 20] }

\* Konva.pixelRatio in halves: 2 is 1.0, 3 is 1.5, 4 is 2.0.
PixelRatios == {2, 3, 4}

\* A colour slot of the store that was never written.
Unset == [unset |-> TRUE]

TransparentBlack == <<0, 0, 0, 0>>

(* ------------------------ the rendering surface ------------------------ *)

\* Conversion of a number (given in halves) to a WebIDL long: the
\* fractional part is dropped, towards zero.
ToLong(n2) == IF n2 >= 0 THEN n2 \div 2 ELSE -((-n2) \div 2)

\* Physical size of a layer's backing buffer for a pixel ratio (in halves).
BufferWidth(ratio) == (StageW * ratio) \div 2
BufferHeight(ratio) == (StageH * ratio) \div 2

InBuffer(px, py, ratio) ==
  /\ 0 <= px /\ px < BufferWidth(ratio)
  /\ 0 <= py /\ py < BufferHeight(ratio)

\* What is drawn on each layer: four bytes R, G, B, A per physical pixel.
Drawn(layer, px, py) ==
  IF layer = "L1"
  THEN IF px = 20 /\ py = 40 THEN <<255, 0, 128, 255>> ELSE <<10, 20, 30, 40>>
  ELSE <<0, 255, 64, 128>>

\* Mutant: a read outside the buffer raises instead of yielding
\* transparent black.
getImageDataThrowsOutside(layer, sx2, sy2, sw, sh, ratio, taintedLayers) ==
  IF layer \in taintedLayers \/ ~InBuffer(ToLong(sx2), ToLong(sy2), ratio)
  THEN [threw |-> TRUE, data |-> <<>>]
  ELSE [threw |-> FALSE, data |-> Drawn(layer, ToLong(sx2), ToLong(sy2))]

\* layer.getContext().getImageData(sx, sy, 1, 1).data, with sx and sy in
\* halves.  The read raises on a surface that cannot be read (a tainted
\* canvas); pixels outside the buffer are transparent black.
getImageData(layer, sx2, sy2, sw, sh, ratio, taintedLayers) ==
  IF layer \in taintedLayers
  THEN [threw |-> TRUE, data |-> <<>>]
  ELSE [threw |-> FALSE,
        data |-> IF InBuffer(ToLong(sx2), ToLong(sy2), ratio)
                 THEN Drawn(layer, ToLong(sx2), ToLong(sy2))
                 ELSE TransparentBlack]

(* ------------------------------ the store ------------------------------ *)

setColorPickerColor(color) ==
  [type |-> "setColorPickerColor", payload |-> color]

commitColorPickerColor ==
  [type |-> "commitColorPickerColor", payload |-> Unset]

\* The two colour slots of the canvas slice under the two actions.
reducer(state, action) ==
  IF action.type = "setColorPickerColor"
  THEN [state EXCEPT !.preview = action.payload]
  ELSE IF state.preview = Unset
       THEN state
       ELSE [state EXCEPT !.committed = state.preview]

RECURSIVE dispatchAll(_, _)
dispatchAll(state, actions) ==
  IF actions = <<>> THEN state
  ELSE dispatchAll(reducer(state, Head(actions)), Tail(actions))

(* ------------------------------ the hook ------------------------------- *)

VARIABLES
  providerStage,     \* what getCanvasStage() returns now
  providerBaseLayer, \* what getCanvasBaseLayer() returns now
  pointerPosition,   \* per stage: what stage.getPointerPosition() returns
  pixelRatio,        \* Konva.pixelRatio, in halves
  tainted,           \* layers whose pixel read raises
  stage,             \* the stage the returned handlers close over
  canvasBaseLayer,   \* the layer the returned handlers close over
  store,             \* [preview, committed]
  nEvents,           \* handler invocations so far
  nPublished,        \* setColorPickerColor actions dispatched so far
  nReady,            \* pointer events handled with stage, layer, position
  nRead,             \* pointer events whose pixel read returned
  lastSampled,       \* colour of the most recent sample that returned
  cleanCommit,       \* a commit copied preview and no sample returned since
  last               \* the handler invocation of the latest step, if any

vars ==
  << providerStage, providerBaseLayer, pointerPosition, pixelRatio, tainted,
     stage, canvasBaseLayer, store, nEvents, nPublished, nReady, nRead,
     lastSampled, cleanCommit, last >>

\* Mutant: the four bytes are taken as B, G, R, A.
colorOfBGRA(data) ==
  [r |-> data[3], g |-> data[2], b |-> data[1], a |-> data[4]]

\* Mutant: the colour channels are multiplied by the alpha byte.
colorOfPremultiplied(data) ==
  [r |-> data[1] * data[4], g |-> data[2] * data[4],
   b |-> data[3] * data[4], a |-> data[4]]

\* The colour published for the four bytes of a 1x1 read.
colorOf(data) == [r |-> data[1], g |-> data[2], b |-> data[3], a |-> data[4]]

\* Mutant: the read is issued at the logical position, not scaled.
readAtLogical(layer, position, ratio) ==
  [layer |-> layer, sx2 |-> position.x * 2, sy2 |-> position.y * 2,
   sw |-> 1, sh |-> 1]

\* The 1x1 read a sample issues for a logical position.
readAt(layer, position, ratio) ==
  [layer |-> layer, sx2 |-> position.x * ratio, sy2 |-> position.y * ratio,
   sw |-> 1, sh |-> 1]

NoOp(queried) ==
  [outcome |-> "noop", queried |-> queried, reads |-> <<>>,
   dispatched |-> <<>>]

\* Mutant: with no pointer position the preview is reset to unset.
updateResultResetsPreview(stg, lyr, positionOf, ratio, taintedLayers) ==
  IF stg = Absent \/ lyr = Absent THEN NoOp(FALSE)
  ELSE LET position == positionOf[stg] IN
    IF position = NoPosition
    THEN [outcome |-> "noop", queried |-> TRUE, reads |-> <<>>,
          dispatched |-> <<setColorPickerColor(Unset)>>]
    ELSE LET read == readAt(lyr, position, ratio)
             got == getImageData(read.layer, read.sx2, read.sy2, read.sw,
                                 read.sh, ratio, taintedLayers)
         IN IF got.threw
            THEN [outcome |-> "threw", queried |-> TRUE, reads |-> <<read>>,
                  dispatched |-> <<>>]
            ELSE [outcome |-> "published", queried |-> TRUE,
                  reads |-> <<read>>,
                  dispatched |-> <<setColorPickerColor(colorOf(got.data))>>]

\* Mutant: the position guard is missing and a null position reads as the
\* origin, so an idle pointer publishes the pixel at (0, 0).
updateResultNoPositionGuard(stg, lyr, positionOf, ratio, taintedLayers) ==
  IF stg = Absent \/ lyr = Absent THEN NoOp(FALSE)
  ELSE LET position == IF positionOf[stg] = NoPosition
                       THEN [x |-> 0, y |-> 0] ELSE positionOf[stg]
           read == readAt(lyr, position, ratio)
           got == getImageData(read.layer, read.sx2, read.sy2, read.sw,
                               read.sh, ratio, taintedLayers)
       IN IF got.threw
          THEN [outcome |-> "threw", queried |-> TRUE, reads |-> <<read>>,
                dispatched |-> <<>>]
          ELSE [outcome |-> "published", queried |-> TRUE,
                reads |-> <<read>>,
                dispatched |-> <<setColorPickerColor(colorOf(got.data))>>]

\* Mutant: a sample commits what it publishes (pick on hover).
updateResultAutoCommit(stg, lyr, positionOf, ratio, taintedLayers) ==
  IF stg = Absent \/ lyr = Absent THEN NoOp(FALSE)
  ELSE LET position == positionOf[stg] IN
    IF position = NoPosition THEN NoOp(TRUE)
    ELSE LET read == readAt(lyr, position, ratio)
             got == getImageData(read.layer, read.sx2, read.sy2, read.sw,
                                 read.sh, ratio, taintedLayers)
         IN IF got.threw
            THEN [outcome |-> "threw", queried |-> TRUE, reads |-> <<read>>,
                  dispatched |-> <<>>]
            ELSE [outcome |-> "published", queried |-> TRUE,
                  reads |-> <<read>>,
                  dispatched |-> <<setColorPickerColor(colorOf(got.data)),
                                   commitColorPickerColor>>]

\* Mutant: a fully transparent pixel is not published.
updateResultSkipsTransparent(stg, lyr, positionOf, ratio, taintedLayers) ==
  IF stg = Absent \/ lyr = Absent THEN NoOp(FALSE)
  ELSE LET position == positionOf[stg] IN
    IF position = NoPosition THEN NoOp(TRUE)
    ELSE LET read == readAt(lyr, position, ratio)
             got == getImageData(read.layer, read.sx2, read.sy2, read.sw,
                                 read.sh, ratio, taintedLayers)
         IN IF got.threw
            THEN [outcome |-> "threw", queried |-> TRUE, reads |-> <<read>>,
                  dispatched |-> <<>>]
            ELSE IF got.data[4] = 0
            THEN [outcome |-> "noop", queried |-> TRUE, reads |-> <<read>>,
                  dispatched |-> <<>>]
            ELSE [outcome |-> "published", queried |-> TRUE,
                  reads |-> <<read>>,
                  dispatched |-> <<setColorPickerColor(colorOf(got.data))>>]

\* Mutant: the preview update is dispatched twice per sample.
updateResultPublishesTwice(stg, lyr, positionOf, ratio, taintedLayers) ==
  IF stg = Absent \/ lyr = Absent THEN NoOp(FALSE)
  ELSE LET position == positionOf[stg] IN
    IF position = NoPosition THEN NoOp(TRUE)
    ELSE LET read == readAt(lyr, position, ratio)
             got == getImageData(read.layer, read.sx2, read.sy2, read.sw,
                                 read.sh, ratio, taintedLayers)
         IN IF got.threw
            THEN [outcome |-> "threw", queried |-> TRUE, reads |-> <<read>>,
                  dispatched |-> <<>>]
            ELSE [outcome |-> "published", queried |-> TRUE,
                  reads |-> <<read>>,
                  dispatched |-> <<setColorPickerColor(colorOf(got.data)),
                                   setColorPickerColor(colorOf(got.data))>>]

\* Mutant: the colour is published later, outside the handler's step.
updateResultDeferred(stg, lyr, positionOf, ratio, taintedLayers) ==
  IF stg = Absent \/ lyr = Absent THEN NoOp(FALSE)
  ELSE LET position == positionOf[stg] IN
    IF position = NoPosition THEN NoOp(TRUE)
    ELSE LET read == readAt(lyr, position, ratio)
             got == getImageData(read.layer, read.sx2, read.sy2, read.sw,
                                 read.sh, ratio, taintedLayers)
         IN IF got.threw
            THEN [outcome |-> "threw", queried |-> TRUE, reads |-> <<read>>,
                  dispatched |-> <<>>]
            ELSE [outcome |-> "published", queried |-> TRUE,
                  reads |-> <<read>>, dispatched |-> <<>>]

\* Mutant: the pointer position is queried before the layer is tested.
updateResultQueriesFirst(stg, lyr, positionOf, ratio, taintedLayers) ==
  IF stg = Absent THEN NoOp(FALSE)
  ELSE LET position == positionOf[stg] IN
    IF lyr = Absent \/ position = NoPosition THEN NoOp(TRUE)
    ELSE LET read == readAt(lyr, position, ratio)
             got == getImageData(read.layer, read.sx2, read.sy2, read.sw,
                                 read.sh, ratio, taintedLayers)
         IN IF got.threw
            THEN [outcome |-> "threw", queried |-> TRUE, reads |-> <<read>>,
                  dispatched |-> <<>>]
            ELSE [outcome |-> "published", queried |-> TRUE,
                  reads |-> <<read>>,
                  dispatched |-> <<setColorPickerColor(colorOf(got.data))>>]

\* Mutant: the read failure is swallowed and the last pixel is published
\* as transparent black.
updateResultSwallowsFailure(stg, lyr, positionOf, ratio, taintedLayers) ==
  IF stg = Absent \/ lyr = Absent THEN NoOp(FALSE)
  ELSE LET position == positionOf[stg] IN
    IF position = NoPosition THEN NoOp(TRUE)
    ELSE LET read == readAt(lyr, position, ratio)
             got == getImageData(read.layer, read.sx2, read.sy2, read.sw,
                                 read.sh, ratio, taintedLayers)
         IN [outcome |-> "published", queried |-> TRUE, reads |-> <<read>>,
             dispatched |->
               <<setColorPickerColor(
                   colorOf(IF got.threw THEN TransparentBlack
                           ELSE got.data))>>]

\* The body of updateColorUnderCursor over the handles it closes over:
\* whether the pointer position was queried, the pixel reads issued, how it
\* ended and the store actions it dispatched.
updateResult(stg, lyr, positionOf, ratio, taintedLayers) ==
  IF stg = Absent \/ lyr = Absent THEN NoOp(FALSE)
  ELSE LET position == positionOf[stg] IN
    IF position = NoPosition THEN NoOp(TRUE)
    ELSE LET read == readAt(lyr, position, ratio)
             got == getImageData(read.layer, read.sx2, read.sy2, read.sw,
                                 read.sh, ratio, taintedLayers)
         IN IF got.threw
            THEN [outcome |-> "threw", queried |-> TRUE, reads |-> <<read>>,
                  dispatched |-> <<>>]
            ELSE [outcome |-> "published", queried |-> TRUE,
                  reads |-> <<read>>,
                  dispatched |-> <<setColorPickerColor(colorOf(got.data))>>]

\* Mutant: the commit handler dispatches nothing.
commitResultDropped ==
  [outcome |-> "committed", queried |-> FALSE, reads |-> <<>>,
   dispatched |-> <<>>]

\* Mutant: the commit handler tests the canvas as the sample does.
commitResultGuarded ==
  IF stage = Absent \/ canvasBaseLayer = Absent
  THEN [outcome |-> "noop", queried |-> FALSE, reads |-> <<>>,
        dispatched |-> <<>>]
  ELSE [outcome |-> "committed", queried |-> FALSE, reads |-> <<>>,
        dispatched |-> <<commitColorPickerColor>>]

\* The body of commitColorUnderCursor.
commitResult ==
  [outcome |-> "committed", queried |-> FALSE, reads |-> <<>>,
   dispatched |-> <<commitColorPickerColor>>]

\* What the record of a handler invocation keeps of the state it ran in.
Observed(op, result) ==
  [op |-> op, stage |-> stage, layer |-> canvasBaseLayer,
   curStage |-> providerStage, curLayer |-> providerBaseLayer,
   position |-> IF stage = Absent THEN NoPosition ELSE pointerPosition[stage],
   tainted |-> canvasBaseLayer \in tainted, clean |-> cleanCommit,
   before |-> store, result |-> result]

\* No handler ran in the latest step.
NoEvent ==
  [op |-> "none", stage |-> Absent, layer |-> Absent, curStage |-> Absent,
   curLayer |-> Absent, position |-> NoPosition, tainted |-> FALSE,
   clean |-> FALSE, before |-> [preview |-> Unset, committed |-> Unset],
   result |-> NoOp(FALSE)]

Init ==
  /\ providerStage = Absent
  /\ providerBaseLayer = Absent
  /\ pointerPosition = [s \in Stages |-> NoPosition]
  /\ pixelRatio \in PixelRatios
  /\ tainted = {}
  /\ stage = Absent
  /\ canvasBaseLayer = Absent
  /\ store = [preview |-> Unset, committed |-> Unset]
  /\ nEvents = 0
  /\ nPublished = 0
  /\ nReady = 0
  /\ nRead = 0
  /\ lastSampled = Unset
  /\ cleanCommit = FALSE
  /\ last = NoEvent

\* konvaInstanceProvider: the canvas mounts, replaces or removes its stage.
setCanvasStage(s) ==
  /\ s # providerStage
  /\ providerStage' = s
  /\ last' = NoEvent
  /\ UNCHANGED << providerBaseLayer, pointerPosition, pixelRatio, tainted,
                  stage, canvasBaseLayer, store, nEvents, nPublished, nReady,
                  nRead, lastSampled, cleanCommit >>

\* konvaInstanceProvider: the canvas mounts, replaces or removes its layer.
setCanvasBaseLayer(l) ==
  /\ l # providerBaseLayer
  /\ providerBaseLayer' = l
  /\ last' = NoEvent
  /\ UNCHANGED << providerStage, pointerPosition, pixelRatio, tainted,
                  stage, canvasBaseLayer, store, nEvents, nPublished, nReady,
                  nRead, lastSampled, cleanCommit >>

\* The mounted stage records where the pointer is, or that it left.
movePointer(p) ==
  /\ providerStage # Absent
  /\ pointerPosition[providerStage] # p
  /\ pointerPosition' = [pointerPosition EXCEPT ![providerStage] = p]
  /\ last' = NoEvent
  /\ UNCHANGED << providerStage, providerBaseLayer, pixelRatio, tainted,
                  stage, canvasBaseLayer, store, nEvents, nPublished, nReady,
                  nRead, lastSampled, cleanCommit >>

\* A layer's surface becomes unreadable; it stays so.
breakSurface(l) ==
  /\ l \notin tainted
  /\ tainted' = tainted \cup {l}
  /\ last' = NoEvent
  /\ UNCHANGED << providerStage, providerBaseLayer, pointerPosition,
                  pixelRatio, stage, canvasBaseLayer, store, nEvents,
                  nPublished, nReady, nRead, lastSampled, cleanCommit >>

\* The component renders: the hook runs and the handlers it returns close
\* over the handles the provider holds at that moment.
useColorPicker ==
  /\ << stage, canvasBaseLayer >> # << providerStage, providerBaseLayer >>
  /\ canvasBaseLayer' = providerBaseLayer
  /\ stage' = providerStage
  /\ last' = NoEvent
  /\ UNCHANGED << providerStage, providerBaseLayer, pointerPosition,
                  pixelRatio, tainted, store, nEvents, nPublished, nReady,
                  nRead, lastSampled, cleanCommit >>

\* Store actions of one kind in a sequence of dispatched actions.
RECURSIVE countType(_, _)
countType(actions, type) ==
  IF actions = <<>> THEN 0
  ELSE (IF Head(actions).type = type THEN 1 ELSE 0)
       + countType(Tail(actions), type)

\* A pointer-move event: the host calls updateColorUnderCursor.
updateColorUnderCursor ==
  /\ nEvents < MaxEvents
  /\ LET result == updateResult(stage, canvasBaseLayer, pointerPosition,
                                pixelRatio, tainted)
         ready == /\ stage # Absent
                  /\ canvasBaseLayer # Absent
                  /\ pointerPosition[stage] # NoPosition
         got == getImageData(canvasBaseLayer,
                             pointerPosition[stage].x * pixelRatio,
                             pointerPosition[stage].y * pixelRatio,
                             1, 1, pixelRatio, tainted)
         returned == ready /\ ~got.threw
         sampled == colorOf(got.data)
     IN /\ store' = dispatchAll(store, result.dispatched)
        /\ nPublished' =
             nPublished + countType(result.dispatched, "setColorPickerColor")
        /\ nReady' = nReady + (IF ready THEN 1 ELSE 0)
        /\ nRead' = nRead + (IF returned THEN 1 ELSE 0)
        /\ lastSampled' = IF returned THEN sampled ELSE lastSampled
        /\ cleanCommit' = (cleanCommit /\ ~returned)
        /\ last' = Observed("sample", result)
  /\ nEvents' = nEvents + 1
  /\ UNCHANGED << providerStage, providerBaseLayer, pointerPosition,
                  pixelRatio, tainted, stage, canvasBaseLayer >>

\* A commit event: the host calls commitColorUnderCursor.
commitColorUnderCursor ==
  /\ nEvents < MaxEvents
  /\ LET result == commitResult
     IN /\ store' = dispatchAll(store, result.dispatched)
        /\ nPublished' =
             nPublished + countType(result.dispatched, "setColorPickerColor")
        /\ cleanCommit' = (cleanCommit \/ store.preview # Unset)
        /\ last' = Observed("commit", result)
  /\ nEvents' = nEvents + 1
  /\ UNCHANGED << providerStage, providerBaseLayer, pointerPosition,
                  pixelRatio, tainted, stage, canvasBaseLayer, nReady, nRead,
                  lastSampled >>

Next ==
  \/ \E s \in Stages \cup {Absent} : setCanvasStage(s)
  \/ \E l \in Layers \cup {Absent} : setCanvasBaseLayer(l)
  \/ \E p \in Positions \cup {NoPosition} : movePointer(p)
  \/ \E l \in Layers : breakSurface(l)
  \/ useColorPicker
  \/ updateColorUnderCursor
  \/ commitColorUnderCursor

Spec == Init /\ [][Next]_vars

(* ------------------------------ the claims ----------------------------- *)

\* The latest step handled a pointer-move with stage, layer and pointer
\* position all present.
ReadySample ==
  /\ last.op = "sample"
  /\ last.stage # Absent
  /\ last.layer # Absent
  /\ last.position # NoPosition

\* The latest step handled a pointer-move with one of the three missing.
IdleSample ==
  /\ last.op = "sample"
  /\ (last.stage = Absent \/ last.layer = Absent
        \/ last.position = NoPosition)

\* C1: right after a commit event handled while preview was set, committed
\* is the preview value of that moment, which is the colour of the most
\* recent sample that returned before the commit.
C1_CommitCopiesPreview ==
  (last.op = "commit" /\ last.before.preview # Unset)
    => /\ store.committed = last.before.preview
       /\ store.committed = lastSampled

\* C1 happens: a commit replaced an earlier committed colour by the colour
\* of the second of two samples.
C1_Witness ==
  /\ last.op = "commit"
  /\ nRead >= 2
  /\ last.before.committed # Unset
  /\ store.committed # last.before.committed
  /\ store.committed = last.before.preview

\* C2: a sample handled with the stage, the layer or the pointer position
\* missing is a no-op: nothing is dispatched and both colour slots keep
\* their values.
C2_IdleSampleIsNoOp ==
  IdleSample
    => /\ last.result.outcome = "noop"
       /\ last.result.dispatched = <<>>
       /\ store = last.before

\* C2 happens: the pointer position went missing after a sample had set the
\* preview, and the preview is still set.
C2_Witness ==
  /\ IdleSample
  /\ last.stage # Absent
  /\ last.layer # Absent
  /\ last.before.preview # Unset
  /\ store.preview = last.before.preview

\* C3: while no sample has returned, preview is unset and a commit changes
\* nothing, so committed stays unset after any run of idle samples and
\* commits.
C3_CommitOfUnsetPreview ==
  /\ (last.op = "commit" /\ last.before.preview = Unset)
       => store = last.before
  /\ nRead = 0 => (store.preview = Unset /\ store.committed = Unset)

\* C3 happens: a commit was handled after idle samples only, one of them
\* with stage and layer mounted.
C3_Witness ==
  /\ last.op = "commit"
  /\ nRead = 0
  /\ nEvents >= 3
  /\ stage # Absent
  /\ canvasBaseLayer # Absent
  /\ store.committed = Unset

\* C4: once a commit has copied preview, a further commit with no sample
\* that returned in between (idle samples may come between) leaves
\* committed as it was.
C4_CommitIdempotent ==
  (last.op = "commit" /\ last.clean)
    => /\ store.committed = last.before.committed
       /\ store.committed = last.before.preview

\* C4 happens: sample, commit, an idle sample, and a second commit.
C4_Witness ==
  /\ last.op = "commit"
  /\ last.clean
  /\ nEvents = 4
  /\ nRead = 1
  /\ nReady = 1
  /\ store.committed # Unset

\* C5: a sample handled with stage, layer and pointer position (x, y)
\* present issues exactly one pixel read, of size 1x1, on the layer, at
\* (x * pixelRatio, y * pixelRatio).
C5_OneReadAtPhysical ==
  ReadySample
    => last.result.reads =
         << [layer |-> last.layer,
             sx2 |-> last.position.x * pixelRatio,
             sy2 |-> last.position.y * pixelRatio,
             sw |-> 1, sh |-> 1] >>

\* C5 happens: with pixel ratio 2 and the pointer at (10, 20) the read went
\* to (20, 40), and its colour was published.
C5_Witness ==
  /\ ReadySample
  /\ pixelRatio = 4
  /\ last.position = [x |-> 10, y |-> 20]
  /\ last.result.outcome = "published"
  /\ Len(last.result.reads) = 1
  /\ ToLong(last.result.reads[1].sx2) = 20
  /\ ToLong(last.result.reads[1].sy2) = 40

\* C6: the stage and the layer a sample uses are the ones the provider
\* holds when the pointer event is handled.
C6_HandlesAreCurrent ==
  last.op = "sample"
    => (last.stage = last.curStage /\ last.layer = last.curLayer)

C8_CommittedOnlyByCommit ==
  [][ store'.committed # store.committed
        => /\ last'.op = "commit"
           /\ store.preview # Unset
           /\ store'.committed = store.preview ]_vars

\* C8 happens: a sample that returned changed preview and left a set
\* committed colour as it was.
C8_Witness ==
  /\ ReadySample
  /\ last.result.outcome = "published"
  /\ store.committed # Unset
  /\ store.committed = last.before.committed
  /\ store.preview # store.committed

\* C9: preview is the colour of the most recent sample that returned,
\* whatever idle samples and commits came between or after.
C9_PreviewLastWriteWins ==
  store.preview = lastSampled

\* C9 happens: a second sample that returned replaced the colour of the
\* first.
C9_Witness ==
  /\ last.op = "sample"
  /\ nRead >= 2
  /\ last.before.preview # Unset
  /\ store.preview # last.before.preview

\* C10 as stated: as many preview updates as pointer events handled with
\* stage, layer and pointer position all present.
C10_UpdatesEqualReadyEvents ==
  nPublished = nReady

\* C10 amended: a preview update is dispatched exactly once by a sample
\* whose pixel read returned and never by any other event, so there are as
\* many preview updates as pointer events handled with stage, layer and
\* pointer position present and a pixel read that did not fail.
C10_UpdatesEqualReturnedReads ==
  /\ nPublished = nRead
  /\ nPublished <= nReady
  /\ last.op # "none"
       => countType(last.result.dispatched, "setColorPickerColor")
            = (IF ReadySample /\ ~last.tainted THEN 1 ELSE 0)

\* C10 happens: an idle sample, a sample whose read failed and a sample
\* that returned, with one preview update.
C10_Witness ==
  /\ nEvents = 3
  /\ nReady = 2
  /\ nRead = 1
  /\ nPublished = 1

\* The four bytes the layer holds under the pointer of the latest sample:
\* the drawn pixel inside the buffer, transparent black outside.
BytesUnderPointer ==
  LET px == ToLong(last.position.x * pixelRatio)
      py == ToLong(last.position.y * pixelRatio)
  IN IF 0 <= px /\ 2 * px < StageW * pixelRatio - 1
        /\ 0 <= py /\ 2 * py < StageH * pixelRatio - 1
     THEN Drawn(last.layer, px, py)
     ELSE <<0, 0, 0, 0>>

\* C11: the bytes of the 1x1 read are published in order as r, g, b, a;
\* with pixel ratio 2, the pointer at (10, 20) and layer pixel (20, 40) =
\* (255, 0, 128, 255), the sample sets preview to {255, 0, 128, 255} and a
\* commit of that preview sets committed to it.
C11_ChannelOrder ==
  /\ (ReadySample /\ ~last.tainted)
       => last.result.dispatched =
            << [type |-> "setColorPickerColor",
                payload |-> [r |-> BytesUnderPointer[1],
                             g |-> BytesUnderPointer[2],
                             b |-> BytesUnderPointer[3],
                             a |-> BytesUnderPointer[4]]] >>
  /\ ( /\ ReadySample /\ ~last.tainted
       /\ pixelRatio = 4
       /\ last.layer = "L1"
       /\ last.position = [x |-> 10, y |-> 20] )
       => store.preview = [r |-> 255, g |-> 0, b |-> 128, a |-> 255]
  /\ ( /\ last.op = "commit"
       /\ last.before.preview = [r |-> 255, g |-> 0, b |-> 128, a |-> 255] )
       => store.committed = [r |-> 255, g |-> 0, b |-> 128, a |-> 255]

\* C11 happens: with pixel ratio 2 the first commit committed
\* {255, 0, 128, 255}.
C11_Witness ==
  /\ last.op = "commit"
  /\ pixelRatio = 4
  /\ last.before.committed = Unset
  /\ store.committed = [r |-> 255, g |-> 0, b |-> 128, a |-> 255]

\* C12: a pixel read that fails is not swallowed: the sample ends by
\* raising, dispatches nothing, and preview and committed keep their values.
C12_ReadFailurePropagates ==
  (ReadySample /\ last.tainted)
    => /\ last.result.outcome = "threw"
       /\ last.result.dispatched = <<>>
       /\ store = last.before

\* C12 happens: a read failed after preview and committed had been set.
C12_Witness ==
  /\ ReadySample
  /\ last.tainted
  /\ last.result.outcome = "threw"
  /\ store.preview # Unset
  /\ store.committed # Unset

\* A colour slot is unset or holds four channels in 0 .. 255.
SlotInRange(slot) ==
  slot # Unset
    => /\ slot.r \in 0 .. 255
       /\ slot.g \in 0 .. 255
       /\ slot.b \in 0 .. 255
       /\ slot.a \in 0 .. 255

\* C13: an event is handled in one step: the step counts one event, leaves
\* the provider, the pointer, the surface and the captured handles as they
\* are, and a sample that publishes publishes, in that same step, the pixel
\* under the pointer position the stage reports in that step.
C13_HandledInOneStep ==
  [][ nEvents' # nEvents
        => /\ nEvents' = nEvents + 1
           /\ last'.op \in {"sample", "commit"}
           /\ UNCHANGED << providerStage, providerBaseLayer, pointerPosition,
                           pixelRatio, tainted, stage, canvasBaseLayer >>
           /\ (last'.op = "sample" /\ last'.result.outcome = "published")
                => /\ last'.position = pointerPosition[stage]
                   /\ last'.layer = canvasBaseLayer
                   /\ Len(last'.result.dispatched) = 1
                   /\ LET px == ToLong(pointerPosition[stage].x * pixelRatio)
                          py == ToLong(pointerPosition[stage].y * pixelRatio)
                          bytes ==
                            IF 0 <= px /\ 2 * px < StageW * pixelRatio - 1
                               /\ 0 <= py /\ 2 * py < StageH * pixelRatio - 1
                            THEN Drawn(canvasBaseLayer, px, py)
                            ELSE <<0, 0, 0, 0>>
                      IN last'.result.dispatched[1].payload =
                           [r |-> bytes[1], g |-> bytes[2],
                            b |-> bytes[3], a |-> bytes[4]] ]_vars

\* C13 happens: two pointer events in a row were each sampled at the
\* position the stage reported, and the second changed the preview.
C13_Witness ==
  /\ ReadySample
  /\ last.result.outcome = "published"
  /\ nEvents = 2
  /\ nRead = 2
  /\ last.position = pointerPosition[stage]
  /\ store.preview # last.before.preview

\* C14: whenever preview or committed is set, each of its channels r, g, b,
\* a is an integer in 0 .. 255.
C14_ChannelsAreBytes ==
  /\ SlotInRange(store.preview)
  /\ SlotInRange(store.committed)

\* C14 happens: the slots hold colours with a channel at each end of the
\* range.
C14_Witness ==
  /\ store.preview # Unset
  /\ store.committed # Unset
  /\ store.committed.r = 255
  /\ store.preview.a = 0

\* C15: both colour slots start unset, and a slot that is set is set in
\* every later state.
C15_SetStaysSet ==
  /\ [](nEvents = 0 => (store.preview = Unset /\ store.committed = Unset))
  /\ [][ /\ store.preview # Unset => store'.preview # Unset
         /\ store.committed # Unset => store'.committed # Unset ]_vars

\* C15 happens: with both slots set, the canvas was removed and an idle
\* sample left both set.
C15_Witness ==
  /\ IdleSample
  /\ last.stage = Absent
  /\ last.layer = Absent
  /\ store.preview # Unset
  /\ store.committed # Unset

\* C16: a commit event dispatches the commit action whether or not stage,
\* layer or pointer position are there; it queries no pointer position,
\* issues no pixel read and leaves preview as it was.
C16_CommitIgnoresCanvas ==
  last.op = "commit"
    => /\ last.result.dispatched = << commitColorPickerColor >>
       /\ last.result.reads = <<>>
       /\ ~last.result.queried
       /\ store.preview = last.before.preview

\* C16 happens: a commit handled with neither stage nor layer changed
\* committed.
C16_Witness ==
  /\ last.op = "commit"
  /\ last.stage = Absent
  /\ last.layer = Absent
  /\ store.committed # last.before.committed

\* C17: with the stage or the layer missing the pointer position is not
\* queried, and with any of stage, layer, pointer position missing no pixel
\* read is issued.
C17_GuardsBeforeAccess ==
  /\ (last.op = "sample" /\ (last.stage = Absent \/ last.layer = Absent))
       => (~last.result.queried /\ last.result.reads = <<>>)
  /\ IdleSample => last.result.reads = <<>>
  /\ (IdleSample /\ last.stage # Absent /\ last.layer # Absent)
       => last.result.queried

\* C17 happens: a sample was handled with the stage mounted, a pointer
\* position on it, and no layer.
C17_Witness ==
  /\ last.op = "sample"
  /\ last.stage # Absent
  /\ last.layer = Absent
  /\ pointerPosition[last.stage] # NoPosition
  /\ ~last.result.queried

====
